---- MODULE Spec2Model ----
(***************************************************************************)
(* The radar chart visual of src/Clients/Visuals/visuals/radarChart.ts as  *)
(* a state machine.  The state is the visual object's fields (dataView,    *)
(* data, settings), the svg root's size and the children of its two        *)
(* groups; the operations are the host callbacks update and                *)
(* enumerateObjectInstances.  Init is the state after init().              *)
(*                                                                         *)
(* Numbers are exact rationals [num, den]; den = 0 stands for the values   *)
(* IEEE division produces from a zero divisor (0/0 = NaN, x/0 = Infinity). *)
(* A coordinate pair the code computes as                                  *)
(*     scale * (1 - frac * sin(idx * 2pi / total)) - push * sin(...)       *)
(*     scale * (1 - frac * cos(idx * 2pi / total)) - push * cos(...)       *)
(* is kept as the record [scale, frac, idx, total, push]: idx is the index *)
(* the code multiplied by 2pi, not reduced modulo total.                   *)
(*                                                                         *)
(* Modelled inputs: data views that have a category column                 *)
(* (categorical.categories[0]); value columns of any length, whether or    *)
(* not it equals the number of categories; integer values; natural         *)
(* segment counts and size factors.                                        *)
(***************************************************************************)
EXTENDS Integers, Sequences, FiniteSets, TLC

\* ------------------------------------------------------------- bounds
MaxCats == 2
MaxSeries == 2
MaxPoints == 2
MaxSegments == 2

\* ---------------------------------------------------- program constants
Factor == 1
FactorLegendPct == 85
MarginFactorPct == 85
LabelPush == 70
DefaultSizeFactor == 4
DefaultSegments == 4

\* ------------------------------------------------------------ numbers
Abs(x) == IF x < 0 THEN -x ELSE x

Sign(x) == IF x < 0 THEN -1 ELSE IF x > 0 THEN 1 ELSE 0

RECURSIVE GCD(_, _)
GCD(a, b) == IF b = 0 THEN a ELSE GCD(b, a % b)

NaN == [num |-> 0, den |-> 0]

\* n / d in lowest terms; a zero divisor gives NaN or a signed Infinity.
Rat(n, d) ==
    IF d = 0 THEN [num |-> Sign(n), den |-> 0]
    ELSE LET g == GCD(Abs(n), Abs(d))
         IN  [num |-> (Sign(d) * n) \div g, den |-> Abs(d) \div g]

Num(n) == [num |-> n, den |-> 1]

IsNaN(x) == x.den = 0 /\ x.num = 0

IsFinite(x) == x.den # 0

RatMul(x, y) ==
    IF IsNaN(x) \/ IsNaN(y) THEN NaN
    ELSE IF (x.den = 0 /\ y.num = 0) \/ (y.den = 0 /\ x.num = 0) THEN NaN
    ELSE IF x.den = 0 \/ y.den = 0 THEN [num |-> Sign(x.num) * Sign(y.num), den |-> 0]
    ELSE Rat(x.num * y.num, x.den * y.den)

RatDiv(x, y) ==
    IF IsNaN(x) \/ IsNaN(y) THEN NaN
    ELSE IF x.den = 0 /\ y.den = 0 THEN NaN
    ELSE IF x.den = 0 THEN [num |-> Sign(x.num) * (IF y.num < 0 THEN -1 ELSE 1), den |-> 0]
    ELSE IF y.den = 0 THEN Num(0)
    ELSE Rat(x.num * y.den, x.den * y.num)

RatSub(x, y) ==
    IF ~IsFinite(x) \/ ~IsFinite(y) THEN NaN
    ELSE Rat(x.num * y.den - y.num * x.den, x.den * y.den)

RatLeq(x, y) == IsFinite(x) /\ IsFinite(y) /\ x.num * y.den <= y.num * x.den

Min(a, b) == IF a <= b THEN a ELSE b

Max(a, b) == IF a >= b THEN a ELSE b

\* An optional number: <<>> is JavaScript's undefined, <<n>> the number n.
Undef == <<>>

Some(n) == <<n>>

IsDefined(o) == Len(o) > 0

\* A number used in arithmetic: undefined converts to NaN.
ToNumber(o) == IF IsDefined(o) THEN Num(o[1]) ELSE NaN

\* --------------------------------------------------------- the palette
\* colors.getColorByIndex(i).value: the host palette's i-th colour.
Palette(i) == [kind |-> "palette", index |-> i, name |-> ""]

Css(name) == [kind |-> "css", index |-> -1, name |-> name]

NoPaint == [kind |-> "none", index |-> -1, name |-> ""]

\* ------------------------------------------------------------ converter
RadarChartDataPoint(value, valueIndex, seriesIndex) ==
    [value |-> value,
     categoryIndex |-> valueIndex,
     seriesIndex |-> seriesIndex,
     color |-> Palette(seriesIndex)]

\* The inner loop over serie.values: one point per value, in order.
DataPoints(serieValues, seriesIndex) ==
    [k \in 1..Len(serieValues) |->
        RadarChartDataPoint(serieValues[k], k - 1, seriesIndex)]

RadarChartSeries(dataPoints, seriesIndex) ==
    [key |-> [prefix |-> "Serie", n |-> seriesIndex],
     index |-> seriesIndex,
     data |-> dataPoints,
     color |-> Palette(seriesIndex)]

SeriesLen(dataView) == IF dataView.hasValues THEN Len(dataView.values) ELSE 0

\* The outer loop from seriesIndex (0-based) on: every point is pushed to
\* values, a series is pushed only when it has at least one point.
RECURSIVE ConvertLoop(_, _, _, _)
ConvertLoop(dataView, seriesIndex, series, values) ==
    IF seriesIndex >= SeriesLen(dataView) THEN [series |-> series, values |-> values]
    ELSE LET dataPoints == DataPoints(dataView.values[seriesIndex + 1], seriesIndex)
         IN  ConvertLoop(dataView, seriesIndex + 1,
                 IF Len(dataPoints) > 0
                 THEN Append(series, RadarChartSeries(dataPoints, seriesIndex))
                 ELSE series,
                 values \o dataPoints)

\* A converter that keeps in values only the points of the last series.
ConverterLastSeriesValues(dataView) ==
    LET r == ConvertLoop(dataView, 0, <<>>, <<>>)
    IN  [defined |-> TRUE,
         categories |-> dataView.categories,
         series |-> r.series,
         values |-> IF r.series = <<>> THEN <<>> ELSE r.series[Len(r.series)].data]

converter(dataView) ==
    LET r == ConvertLoop(dataView, 0, <<>>, <<>>)
    IN  [defined |-> TRUE,
         categories |-> dataView.categories,
         series |-> r.series,
         values |-> r.values]

\* --------------------------------------------------- property accessors
\* A boolean property read from the metadata is "true", "false" or, when the
\* object is there without it, "undefined"; only "true" passes an if.
Truthy(b) == b = "true"

getShowNodes(dataView) ==
    IF dataView.defined /\ dataView.objects.defined /\ dataView.objects.nodes.present
    THEN dataView.objects.nodes.show
    ELSE "true"

getSizeFactorNodes(dataView) ==
    IF /\ dataView.defined /\ dataView.objects.defined /\ dataView.objects.nodes.present
       /\ IsDefined(dataView.objects.nodes.sizeFactor)
    THEN dataView.objects.nodes.sizeFactor[1]
    ELSE DefaultSizeFactor

getShowLevelAxis(dataView) ==
    IF dataView.defined /\ dataView.objects.defined /\ dataView.objects.levelAxis.present
    THEN dataView.objects.levelAxis.show
    ELSE "true"

getFormatLevelAxis(dataView) ==
    IF dataView.defined /\ dataView.objects.defined /\ dataView.objects.levelAxis.present
    THEN dataView.objects.levelAxis.format
    ELSE "%"

getSegmentsLevelAxis(dataView) ==
    IF /\ dataView.defined /\ dataView.objects.defined /\ dataView.objects.levelAxis.present
       /\ IsDefined(dataView.objects.levelAxis.segments)
    THEN dataView.objects.levelAxis.segments[1]
    ELSE DefaultSegments

getShowCategoryAxis(dataView) ==
    IF dataView.defined /\ dataView.objects.defined /\ dataView.objects.categoryAxis.present
    THEN dataView.objects.categoryAxis.show
    ELSE "true"

\* ------------------------------------------------------------- settings
\* d3.max over numbers: undefined for an empty array.
RECURSIVE D3MaxFrom(_, _, _)
D3MaxFrom(xs, k, best) ==
    IF k > Len(xs) THEN best
    ELSE D3MaxFrom(xs, k + 1, IF xs[k] > best THEN xs[k] ELSE best)

\* A maximum that is the last value.
LastValue(xs) == IF Len(xs) = 0 THEN Undef ELSE Some(xs[Len(xs)])

D3Max(xs) == IF Len(xs) = 0 THEN Undef ELSE Some(D3MaxFrom(xs, 2, xs[1]))

PointValues(points) == [k \in 1..Len(points) |-> points[k].value]

\* Factor * min(width / 2, height / 2) * MarginFactor
Radius(viewport) ==
    Rat(Factor * Min(viewport.width, viewport.height) * MarginFactorPct, 2 * 100)

\* Settings whose ring count is always the default, whatever the data view.
SettingsWithDefaultLevels(dataView, data, viewport) ==
    [defined |-> TRUE,
     width |-> viewport.width,
     height |-> viewport.height,
     catTotal |-> Len(data.categories),
     catAxis |-> data.categories,
     radius |-> Radius(viewport),
     nodeRadius |-> RatDiv(RatMul(Radius(viewport), Num(getSizeFactorNodes(dataView))), Num(100)),
     levels |-> DefaultSegments,
     levelsFormat |-> getFormatLevelAxis(dataView),
     maxValue |-> D3Max(PointValues(data.values))]

RadarChartSettings(dataView, data, viewport) ==
    [defined |-> TRUE,
     width |-> viewport.width,
     height |-> viewport.height,
     catTotal |-> Len(data.categories),
     catAxis |-> data.categories,
     radius |-> Radius(viewport),
     nodeRadius |-> RatDiv(RatMul(Radius(viewport), Num(getSizeFactorNodes(dataView))), Num(100)),
     levels |-> getSegmentsLevelAxis(dataView),
     levelsFormat |-> getFormatLevelAxis(dataView),
     maxValue |-> D3Max(PointValues(data.values))]

\* ---------------------------------------------------------------- scene
Point(scale, frac, idx, total, push) ==
    [scale |-> scale, frac |-> frac, idx |-> idx, total |-> total, push |-> push]

Class(name, n) == [name |-> name, n |-> n]

NoText == [str |-> "", num |-> NaN, suffix |-> ""]

NoTranslate == <<Num(0), Num(0)>>

Element(tag, class, pts, translate, stroke, fill, r, text) ==
    [tag |-> tag, class |-> class, pts |-> pts, translate |-> translate,
     stroke |-> stroke, fill |-> fill, r |-> r, text |-> text]

\* selection.selectAll("." + name) over a group's children.
SelectAllClass(children, name) ==
    SelectSeq(children, LAMBDA e : e.class.name = name)

SelectAllTag(children, tag) == SelectSeq(children, LAMBDA e : e.tag = tag)

\* The enter selection of selectAll(...).data(data) without a key: one
\* placeholder per datum that has no element, i.e. the indices (0-based)
\* from the number of matched elements on.
EnterIndices(matched, data) == {i \in 0..(Len(data) - 1) : i >= Len(matched)}

\* Number.toFixed(0): round half away from zero.
RoundRat(x) ==
    Sign(x.num) * ((2 * Abs(x.num) + x.den) \div (2 * x.den))

\* d3.format(specifier)(x): '%' multiplies by 100, rounds to an integer and
\* appends '%'; a specifier with no known type formats x as is.
FormatNumber(specifier, x) ==
    IF specifier = "%"
    THEN [str |-> "",
          num |-> IF IsFinite(x) THEN Num(RoundRat(RatMul(x, Num(100)))) ELSE x,
          suffix |-> "%"]
    ELSE [str |-> "", num |-> x, suffix |-> ""]

LevelFactor(settings, j) ==
    RatMul(settings.radius, Rat(j + 1, settings.levels))

Half(n) == Rat(n, 2)

\* One ring (level j) of the level axis: a line per category.
LevelRing(settings, j) ==
    LET levelFactor == LevelFactor(settings, j)
        line(i) ==
            Element("line", Class("line", -1),
                <<Point(levelFactor, Num(Factor), i, settings.catTotal, 0),
                  Point(levelFactor, Num(Factor), i + 1, settings.catTotal, 0)>>,
                <<RatSub(Half(settings.width), levelFactor),
                  RatSub(Half(settings.height), levelFactor)>>,
                Css("grey"), NoPaint, NaN, NoText)
    IN  [k \in 1..settings.catTotal |-> line(k - 1)]

RECURSIVE LevelRings(_, _)
LevelRings(settings, j) ==
    IF j >= settings.levels THEN <<>>
    ELSE LevelRing(settings, j) \o LevelRings(settings, j + 1)

\* The text of level j: the share of maxValue the ring stands for.
LevelText(settings, j) ==
    LET levelFactor == LevelFactor(settings, j)
    IN  Element("text", Class("legend", -1),
            <<Point(levelFactor, Num(Factor), 0, 1, 0)>>,
            <<RatSub(Half(settings.width), levelFactor),
              RatSub(Half(settings.height), levelFactor)>>,
            NoPaint, Css("#737373"), NaN,
            FormatNumber(settings.levelsFormat,
                RatDiv(RatMul(Num(j + 1), ToNumber(settings.maxValue)),
                       Num(settings.levels))))

\* Level texts on every ring, the outermost too.
LevelTextsAllRings(settings) ==
    LET text(j) == LevelText(settings, j)
    IN  [k \in 1..settings.levels |-> text(k - 1)]

LevelTexts(settings) ==
    LET text(j) == LevelText(settings, j)
    IN  [k \in 1..(settings.levels - 1) |-> text(k - 1)]

CategoryTranslate(settings) ==
    <<RatSub(Half(settings.width), settings.radius),
      RatSub(Half(settings.height), settings.radius)>>

CategoryLines(settings) ==
    LET line(i) ==
            Element("line", Class("line", -1),
                <<Point(settings.radius, Num(0), 0, 1, 0),
                  Point(settings.radius, Num(Factor), i, settings.catTotal, 0)>>,
                CategoryTranslate(settings),
                Css("grey"), NoPaint, NaN, NoText)
    IN  [k \in 1..settings.catTotal |-> line(k - 1)]

\* selectAll(".axis").data(catAxis).enter().append("text")
CategoryLabels(children, settings) ==
    LET enter == EnterIndices(SelectAllClass(children, "axis"), settings.catAxis)
        label(i) ==
            Element("text", Class("legend", -1),
                <<Point(settings.radius, Rat(FactorLegendPct, 100), i,
                        settings.catTotal, LabelPush)>>,
                <<RatSub(Half(settings.width), settings.radius),
                  RatSub(RatSub(Half(settings.height), settings.radius), Num(15))>>,
                NoPaint, NoPaint, NaN,
                [str |-> settings.catAxis[i + 1], num |-> NaN, suffix |-> ""])
    IN  IF enter = {} THEN <<>>
        ELSE [k \in 1..Cardinality(enter) |->
                 label(Len(settings.catAxis) - Cardinality(enter) + k - 1)]

\* drawAxis: what it appends to the axis group's children.
drawAxis(children, settings, dataView) ==
    LET withLevels ==
            IF Truthy(getShowLevelAxis(dataView))
            THEN children \o LevelRings(settings, 0) \o LevelTexts(settings)
            ELSE children
    IN  IF Truthy(getShowCategoryAxis(dataView))
        THEN withLevels \o CategoryLines(settings)
                 \o CategoryLabels(withLevels \o CategoryLines(settings), settings)
        ELSE withLevels

\* A vertex whose value is not raised to 0.
DataVertexUnclamped(settings, point, i) ==
    Point(settings.radius,
          RatMul(RatDiv(Num(point.value), ToNumber(settings.maxValue)), Num(Factor)),
          i, settings.catTotal, 0)

\* The coordinates of a data value at index i (0-based): the value is first
\* raised to 0 when negative, then divided by maxValue.
DataVertex(settings, point, i) ==
    Point(settings.radius,
          RatMul(RatDiv(Num(Max(point.value, 0)), ToNumber(settings.maxValue)), Num(Factor)),
          i, settings.catTotal, 0)

\* A polygon that is left open.
OpenPolygonPoints(settings, serie) ==
    [k \in 1..Len(serie.data) |-> DataVertex(settings, serie.data[k], k - 1)]

\* The key function handed to selectAll(".nodes").data(serie.data, key) is
\* called once per datum with the datum's index in serie.data, and pushes a
\* vertex each time; the first vertex is then pushed again.
PolygonPoints(settings, serie) ==
    LET dataValues == [k \in 1..Len(serie.data) |-> DataVertex(settings, serie.data[k], k - 1)]
    IN  Append(dataValues, dataValues[1])

\* Which palette colour and class number the polygon of data.series[j] gets
\* (j is 0-based, the loop variable of drawData).
PolygonNumber(data, j) == j

\* selectAll(".area").data([dataValues]).enter().append("polygon")
Polygon(children, settings, data, j) ==
    LET points == PolygonPoints(settings, data.series[j + 1])
    IN  IF EnterIndices(SelectAllClass(children, "area"), <<points>>) = {} THEN <<>>
        ELSE <<Element("polygon", Class("radar-chart-serie", PolygonNumber(data, j)),
                   points, NoTranslate,
                   Palette(PolygonNumber(data, j)), Palette(PolygonNumber(data, j)),
                   NaN, NoText)>>

RECURSIVE Polygons(_, _, _, _)
Polygons(children, settings, data, j) ==
    IF j >= Len(data.series) THEN children
    ELSE Polygons(children \o Polygon(children, settings, data, j), settings, data, j + 1)

\* selectAll(".nodes").data(data.values).enter().append("svg:circle"): the
\* index handed to cx and cy is the datum's index in data.values.
Nodes(children, settings, data) ==
    LET enter == EnterIndices(SelectAllClass(children, "nodes"), data.values)
        circle(i) ==
            Element("circle", Class("radar-chart-serie", 1),
                <<DataVertex(settings, data.values[i + 1], i)>>, NoTranslate,
                NoPaint, data.values[i + 1].color, settings.nodeRadius, NoText)
    IN  IF enter = {} THEN <<>>
        ELSE [k \in 1..Cardinality(enter) |->
                 circle(Len(data.values) - Cardinality(enter) + k - 1)]

\* A drawData that draws the nodes whatever the setting.
drawDataAlwaysNodes(group, settings, data, dataView) ==
    LET polygons == Polygons(group.children, settings, data, 0)
    IN  [transform |-> <<RatSub(Half(settings.width), settings.radius),
                         RatSub(Half(settings.height), settings.radius)>>,
         children |-> polygons \o Nodes(polygons, settings, data)]

\* drawData: the data group after it.
drawData(group, settings, data, dataView) ==
    LET polygons == Polygons(group.children, settings, data, 0)
    IN  [transform |-> <<RatSub(Half(settings.width), settings.radius),
                         RatSub(Half(settings.height), settings.radius)>>,
         children |-> IF Truthy(getShowNodes(dataView))
                      THEN polygons \o Nodes(polygons, settings, data)
                      ELSE polygons]

\* A remove() that removes nothing.
RemoveNothing(children) == children

\* selection.selectAll("*").remove()
RemoveAll(children) == <<>>

\* ------------------------------------------------------------- state
VARIABLES
    dataView,              \* this.dataView
    data,                  \* this.data
    settings,              \* this.settings
    svg,                   \* the svg root's width and height attributes
    axisGraphicsContext,   \* the children of the first <g>
    dataGraphicsContext,   \* the second <g>: its transform and children
    lastUpdate,            \* the options of the last update that had a data view
    cleared,               \* how many elements that update removed before drawing
    returned               \* the last host call: its name, the shape of an update's
                           \* options.dataViews, and what an enumeration returned

vars == <<dataView, data, settings, svg, axisGraphicsContext, dataGraphicsContext,
          lastUpdate, cleared, returned>>

visual == <<dataView, data, settings, svg, axisGraphicsContext, dataGraphicsContext>>

NoObject == [present |-> FALSE, show |-> "undefined", sizeFactor |-> Undef,
             segments |-> Undef, format |-> "undefined"]

NoObjects == [defined |-> FALSE, nodes |-> NoObject, categoryAxis |-> NoObject,
              levelAxis |-> NoObject]

NoDataView == [defined |-> FALSE, categories |-> <<>>, hasValues |-> FALSE,
               values |-> <<>>, objects |-> NoObjects]

NoData == [defined |-> FALSE, categories |-> <<>>, series |-> <<>>, values |-> <<>>]

NoSettings == [defined |-> FALSE, width |-> 0, height |-> 0, catTotal |-> 0,
               catAxis |-> <<>>, radius |-> NaN, nodeRadius |-> NaN, levels |-> 0,
               levelsFormat |-> "undefined", maxValue |-> Undef]

NoReturn == [call |-> "none", dataViews |-> "none", objectName |-> "", instances |-> <<>>]

Init ==
    /\ dataView = NoDataView
    /\ data = NoData
    /\ settings = NoSettings
    /\ svg = [width |-> Undef, height |-> Undef]
    /\ axisGraphicsContext = <<>>
    /\ dataGraphicsContext = [transform |-> <<>>, children |-> <<>>]
    /\ lastUpdate = [defined |-> FALSE, dataView |-> NoDataView,
                     viewport |-> [width |-> 0, height |-> 0]]
    /\ cleared = 0
    /\ returned = NoReturn

\* ------------------------------------------------------- host callbacks
\* update(options) with a data view: everything is recomputed and redrawn.
Render(options) ==
    /\ dataView' = options.dataView
    /\ data' = converter(dataView')
    /\ settings' = RadarChartSettings(dataView', data', options.viewport)
    /\ svg' = [width |-> Some(options.viewport.width),
               height |-> Some(options.viewport.height)]
    /\ axisGraphicsContext' =
           drawAxis(RemoveAll(axisGraphicsContext), settings', dataView')
    /\ dataGraphicsContext' =
           drawData([transform |-> dataGraphicsContext.transform,
                     children |-> RemoveAll(dataGraphicsContext.children)],
                    settings', data', dataView')

\* An update that clears the view when it is given no data view.
updateClearingView(options) ==
    /\ IF options.dataViews = "absent" \/ options.dataViews = "empty"
       THEN /\ axisGraphicsContext' = RemoveAll(axisGraphicsContext)
            /\ dataGraphicsContext' =
                   [dataGraphicsContext EXCEPT !.children = RemoveAll(@)]
            /\ UNCHANGED <<dataView, data, settings, svg, lastUpdate, cleared>>
       ELSE /\ Render(options)
            /\ cleared' = Len(axisGraphicsContext) + Len(dataGraphicsContext.children)
            /\ lastUpdate' = [defined |-> TRUE, dataView |-> options.dataView,
                              viewport |-> options.viewport]
    /\ returned' = [NoReturn EXCEPT !.call = "update", !.dataViews = options.dataViews]

\* update(options): options.dataViews is "absent" (no array), "empty" (an
\* array without a first entry) or "present" (dataViews[0] is a data view).
update(options) ==
    /\ IF options.dataViews = "absent" \/ options.dataViews = "empty"
       THEN UNCHANGED <<visual, lastUpdate, cleared>>
       ELSE /\ Render(options)
            /\ cleared' = Len(axisGraphicsContext) + Len(dataGraphicsContext.children)
            /\ lastUpdate' = [defined |-> TRUE, dataView |-> options.dataView,
                              viewport |-> options.viewport]
    /\ returned' = [NoReturn EXCEPT !.call = "update", !.dataViews = options.dataViews]

NoProperties == [names |-> {}, show |-> "undefined", sizeFactor |-> Undef,
                 segments |-> Undef]

VisualObjectInstance(objectName, displayName, properties) ==
    [objectName |-> objectName, displayName |-> displayName, properties |-> properties]

\* An enumeration that knows no 'levelAxis' case.
InstancesWithoutLevelAxis(dv, objectName) ==
    CASE objectName = "nodes" ->
           <<VisualObjectInstance("nodes", "Nodes",
               [NoProperties EXCEPT !.names = {"show", "sizeFactor"},
                                    !.show = getShowNodes(dv),
                                    !.sizeFactor = Some(getSizeFactorNodes(dv))])>>
      [] objectName = "categoryAxis" ->
           <<VisualObjectInstance("categoryAxis", "Category axis",
               [NoProperties EXCEPT !.names = {"show"},
                                    !.show = getShowCategoryAxis(dv)])>>
      [] OTHER -> <<>>

\* The instances enumerateObjectInstances returns for an object name.
Instances(dv, objectName) ==
    CASE objectName = "nodes" ->
           <<VisualObjectInstance("nodes", "Nodes",
               [NoProperties EXCEPT !.names = {"show", "sizeFactor"},
                                    !.show = getShowNodes(dv),
                                    !.sizeFactor = Some(getSizeFactorNodes(dv))])>>
      [] objectName = "categoryAxis" ->
           <<VisualObjectInstance("categoryAxis", "Category axis",
               [NoProperties EXCEPT !.names = {"show"},
                                    !.show = getShowCategoryAxis(dv)])>>
      [] objectName = "levelAxis" ->
           <<VisualObjectInstance("levelAxis", "Level axis",
               [NoProperties EXCEPT !.names = {"show", "segments"},
                                    !.show = getShowLevelAxis(dv),
                                    !.segments = Some(getSegmentsLevelAxis(dv))])>>
      [] OTHER -> <<>>

enumerateObjectInstances(objectName) ==
    /\ returned' = [NoReturn EXCEPT !.call = "enumerateObjectInstances",
                                    !.objectName = objectName,
                                    !.instances = Instances(dataView, objectName)]
    /\ UNCHANGED <<visual, lastUpdate, cleared>>

\* ------------------------------------------------------- explored inputs
Values == {-1, 0, 2}

TriState == {"true", "false", "undefined"}

SizeFactors == {10}

CategoryNames == <<"North", "East", "South", "West", "Up", "Down">>

Categories == {SubSeq(CategoryNames, 1, n) : n \in 0..MaxCats}

Columns == UNION {[1..n -> Values] : n \in 0..MaxPoints}

RECURSIVE TotalLen(_)
TotalLen(cols) == IF cols = <<>> THEN 0 ELSE Len(Head(cols)) + TotalLen(Tail(cols))

\* categorical.values: up to MaxSeries columns holding up to MaxPoints values.
ColumnLists ==
    {cols \in UNION {[1..k -> Columns] : k \in 0..MaxSeries} : TotalLen(cols) <= MaxPoints}

Dataset(categories, hasValues, values) ==
    [categories |-> categories, hasValues |-> hasValues, values |-> values]

Datasets ==
    {Dataset(c, TRUE, v) : c \in Categories, v \in ColumnLists}
        \cup {Dataset(c, FALSE, <<>>) : c \in Categories}

NodesObjects ==
    {NoObject} \cup
    {[NoObject EXCEPT !.present = TRUE, !.show = s, !.sizeFactor = f] :
        s \in TriState, f \in {Undef} \cup {Some(n) : n \in SizeFactors}}

CategoryAxisObjects ==
    {NoObject} \cup {[NoObject EXCEPT !.present = TRUE, !.show = s] : s \in TriState}

LevelAxisObjects ==
    {NoObject} \cup
    {[NoObject EXCEPT !.present = TRUE, !.show = s, !.segments = g] :
        s \in TriState, g \in {Undef} \cup {Some(n) : n \in 0..MaxSegments}}

\* metadata.objects: absent, or any combination of the three objects.
Objects ==
    {NoObjects} \cup
    {[defined |-> TRUE, nodes |-> n, categoryAxis |-> c, levelAxis |-> l] :
        n \in NodesObjects, c \in CategoryAxisObjects, l \in LevelAxisObjects}

Viewports == {[width |-> 400, height |-> 200], [width |-> 100, height |-> 300]}

SampleViewport == [width |-> 400, height |-> 200]

SampleDatasets ==
    {Dataset(<<>>, FALSE, <<>>),
     Dataset(<<"North">>, TRUE, <<<<2>>>>),
     Dataset(<<"North", "East">>, TRUE, <<<<0, 2>>, <<1, -1>>>>)}

Options(dataset, objects, viewport) ==
    [dataViews |-> "present",
     dataView |-> [defined |-> TRUE, categories |-> dataset.categories,
                   hasValues |-> dataset.hasValues, values |-> dataset.values,
                   objects |-> objects],
     viewport |-> viewport]

HiddenObjects ==
    [defined |-> TRUE,
     nodes |-> [NoObject EXCEPT !.present = TRUE, !.show = "false", !.sizeFactor = Some(10)],
     categoryAxis |-> [NoObject EXCEPT !.present = TRUE, !.show = "false"],
     levelAxis |-> [NoObject EXCEPT !.present = TRUE, !.show = "false", !.segments = Some(1)]]

CustomObjects ==
    [defined |-> TRUE,
     nodes |-> [NoObject EXCEPT !.present = TRUE, !.show = "true", !.sizeFactor = Some(10)],
     categoryAxis |-> [NoObject EXCEPT !.present = TRUE, !.show = "true"],
     levelAxis |-> [NoObject EXCEPT !.present = TRUE, !.show = "true", !.segments = Some(2)]]

\* The options explored for a visual's first update: every data set under
\* the default and the all-hidden settings, every setting over the sample
\* data sets, and every viewport.
FirstOptions ==
    {Options(d, o, SampleViewport) : d \in Datasets, o \in {NoObjects, HiddenObjects}}
        \cup {Options(d, o, SampleViewport) : d \in SampleDatasets, o \in Objects}
        \cup {Options(d, o, v) : d \in SampleDatasets, o \in {NoObjects, CustomObjects},
                                 v \in Viewports}

\* The options explored for the updates after the first.
RepeatOptions ==
    {Options(d, o, v) : d \in SampleDatasets, o \in {NoObjects, HiddenObjects, CustomObjects},
                        v \in Viewports}

ObjectNames == {"nodes", "categoryAxis", "levelAxis", "general"}

\* ------------------------------------------------------------ behaviour
\* The first update a visual receives, with any of the explored options.
FirstUpdate == ~dataView.defined /\ \E options \in FirstOptions : update(options)

\* A later update.
NextUpdate == dataView.defined /\ \E options \in RepeatOptions : update(options)

\* An update whose options carry no data view.
EmptyUpdate ==
    \E dataViews \in {"absent", "empty"} :
        update([dataViews |-> dataViews, dataView |-> NoDataView,
                viewport |-> SampleViewport])

Enumerate == \E objectName \in ObjectNames : enumerateObjectInstances(objectName)

Next == FirstUpdate \/ NextUpdate \/ EmptyUpdate \/ Enumerate

Spec == Init /\ [][Next]_vars

\* ------------------------------------------------------ reading a scene
PolygonsOf(children) == SelectAllTag(children, "polygon")

Circles(children) == SelectAllTag(children, "circle")

IsRingLine(e) == e.tag = "line" /\ e.pts[1].frac = Num(Factor)

IsSpoke(e) == e.tag = "line" /\ e.pts[1].frac = Num(0)

IsLevelLabel(e) == e.tag = "text" /\ e.pts[1].push = 0

IsCategoryLabel(e) == e.tag = "text" /\ e.pts[1].push = LabelPush

RingLines == SelectSeq(axisGraphicsContext, IsRingLine)

Spokes == SelectSeq(axisGraphicsContext, IsSpoke)

CategoryLabelsDrawn == SelectSeq(axisGraphicsContext, IsCategoryLabel)

LevelLabels == SelectSeq(axisGraphicsContext, IsLevelLabel)

RECURSIVE Concat(_)
Concat(seqs) == IF seqs = <<>> THEN <<>> ELSE Head(seqs) \o Concat(Tail(seqs))

SeriesData(d) == [k \in 1..Len(d.series) |-> d.series[k].data]

\* What a visual fresh from init() holds after one update with these options.
FreshData(o) == converter(o.dataView)

FreshSettings(o) == RadarChartSettings(o.dataView, FreshData(o), o.viewport)

FreshAxis(o) == drawAxis(<<>>, FreshSettings(o), o.dataView)

FreshDataGroup(o) ==
    drawData([transform |-> <<>>, children |-> <<>>], FreshSettings(o), FreshData(o),
             o.dataView)

ReportedProperties(objectName) == Instances(dataView, objectName)[1].properties

NoDuplicates(xs) == \A i, j \in 1..Len(xs) : xs[i] = xs[j] => i = j

RECURSIVE SumLen(_)
SumLen(seqs) == IF seqs = <<>> THEN 0 ELSE Len(Head(seqs)) + SumLen(Tail(seqs))

\* C3: data.values is the concatenation, in series order, of the data lists
\* of the returned series: every point of a series is in values exactly
\* once, every point of values is in a series, the lengths add up; and
\* data.categories is the category column as given.
C3_ValuesFlattenSeries ==
    lastUpdate.defined =>
        /\ data.values = Concat(SeriesData(data))
        /\ Len(data.values) = SumLen(SeriesData(data))
        /\ NoDuplicates(data.values)
        /\ \A k \in 1..Len(data.series) : \A i \in 1..Len(data.series[k].data) :
               \E n \in 1..Len(data.values) : data.values[n] = data.series[k].data[i]
        /\ \A n \in 1..Len(data.values) :
               \E k \in 1..Len(data.series) : \E i \in 1..Len(data.series[k].data) :
                   data.values[n] = data.series[k].data[i]
        /\ data.categories = lastUpdate.dataView.categories

\* A series of two points after an empty value column that gives no series.
C3_Witness ==
    /\ lastUpdate.defined
    /\ Len(lastUpdate.dataView.values) = 2
    /\ Len(data.series) = 1
    /\ data.series[1].index = 1
    /\ Len(data.values) = 2
    /\ Len(data.categories) = 2

\* ----------------------------------------------------------------- C4
PolygonOfSeries(k) == PolygonsOf(dataGraphicsContext.children)[k]

\* C4: every point of a series carries the series' index and colour, series
\* keys are pairwise distinct, and the polygon drawn for a series is stroked
\* and filled with the series' colour and has the class 'radar-chart-serie'
\* followed by the series' index.
C4_SeriesShareIndexAndColor ==
    lastUpdate.defined =>
        /\ \A k \in 1..Len(data.series) : \A i \in 1..Len(data.series[k].data) :
               /\ data.series[k].data[i].seriesIndex = data.series[k].index
               /\ data.series[k].data[i].color = data.series[k].color
        /\ \A k, m \in 1..Len(data.series) :
               data.series[k].key = data.series[m].key => k = m
        /\ Len(PolygonsOf(dataGraphicsContext.children)) = Len(data.series)
        /\ \A k \in 1..Len(data.series) :
               /\ PolygonOfSeries(k).stroke = data.series[k].color
               /\ PolygonOfSeries(k).fill = data.series[k].color
               /\ PolygonOfSeries(k).class = Class("radar-chart-serie", data.series[k].index)

\* ----------------------------------------------------------------- C5
\* C5: when the converted data has at least one point, settings.maxValue is
\* a number, no point's value is above it and some point's value equals it.
C5_MaxValueIsMaximum ==
    (lastUpdate.defined /\ Len(data.values) > 0) =>
        /\ IsDefined(settings.maxValue)
        /\ \A n \in 1..Len(data.values) : data.values[n].value <= settings.maxValue[1]
        /\ \E n \in 1..Len(data.values) : data.values[n].value = settings.maxValue[1]

\* Points of two series whose maximum is neither the first nor the last value.
C5_Witness ==
    /\ lastUpdate.defined
    /\ Len(data.series) = 2
    /\ Len(data.values) = 4
    /\ data.values[1].value < settings.maxValue[1]
    /\ data.values[4].value < settings.maxValue[1]

\* ----------------------------------------------------------------- C6
\* Two coordinate records that denote the same place: the same formula, or
\* the same scale and either the same share of it at angles a whole number
\* of turns apart, or no share at all (the centre).
SamePlace(p, q) ==
    \/ p = q
    \/ /\ p.scale = q.scale
       /\ p.push = q.push
       /\ \/ p.frac = Num(0) /\ q.frac = Num(0) /\ p.total # 0 /\ q.total # 0
          \/ /\ p.frac = q.frac
             /\ p.total = q.total
             /\ p.total # 0
             /\ (p.idx - q.idx) % p.total = 0

\* Where the statement puts a value v at category position i.
UnclampedVertex(v, i) ==
    Point(settings.radius, RatDiv(Num(v), ToNumber(settings.maxValue)), i,
          settings.catTotal, 0)

\* Where the code's formula puts a value v at index i.
ClampedVertex(v, i) ==
    Point(settings.radius, RatDiv(Num(Max(v, 0)), ToNumber(settings.maxValue)), i,
          settings.catTotal, 0)

NodesShown == Truthy(getShowNodes(dataView))

CircleOfValue(n) == Circles(dataGraphicsContext.children)[n]

C7_ShowNodesDecidesCircles ==
    lastUpdate.defined =>
        /\ getShowNodes(dataView) = "true" =>
               /\ Len(Circles(dataGraphicsContext.children)) = Len(data.values)
               /\ \A n \in 1..Len(data.values) :
                      CircleOfValue(n).fill = data.values[n].color
        /\ getShowNodes(dataView) = "false" =>
               Len(Circles(dataGraphicsContext.children)) = 0
        /\ Len(PolygonsOf(dataGraphicsContext.children)) = Len(data.series)

\* Nodes switched off over data that has points and polygons.
C7_Witness ==
    /\ lastUpdate.defined
    /\ getShowNodes(dataView) = "false"
    /\ Len(data.values) > 1
    /\ Len(PolygonsOf(dataGraphicsContext.children)) = 2
    /\ Len(Circles(dataGraphicsContext.children)) = 0

\* ----------------------------------------------------------------- C8
\* C8: with catTotal categories and segment count L, the axis group holds
\* L * catTotal ring lines and max(L - 1, 0) level labels, one on each of
\* the rings 1..L-1, when the level axis is shown and none of either when it
\* is not; and catTotal spokes and catTotal category labels when the
\* category axis is shown and none of either when it is not.
C8_AxisCounts ==
    lastUpdate.defined =>
        /\ IF Truthy(getShowLevelAxis(dataView))
           THEN /\ Len(RingLines) = settings.levels * settings.catTotal
                /\ Len(LevelLabels) = Max(settings.levels - 1, 0)
                /\ \A k \in 1..Len(LevelLabels) :
                       LevelLabels[k].pts[1].scale =
                           RatMul(settings.radius, Rat(k, settings.levels))
           ELSE /\ Len(RingLines) = 0
                /\ Len(LevelLabels) = 0
        /\ IF Truthy(getShowCategoryAxis(dataView))
           THEN /\ Len(Spokes) = settings.catTotal
                /\ Len(CategoryLabelsDrawn) = settings.catTotal
           ELSE /\ Len(Spokes) = 0
                /\ Len(CategoryLabelsDrawn) = 0
        /\ Len(axisGraphicsContext) =
               Len(RingLines) + Len(LevelLabels)
                   + Len(Spokes)
                   + Len(CategoryLabelsDrawn)

\* The level axis shown with two segments over two categories while the
\* category axis is hidden.
C8_Witness ==
    /\ lastUpdate.defined
    /\ Truthy(getShowLevelAxis(dataView))
    /\ ~Truthy(getShowCategoryAxis(dataView))
    /\ settings.levels = 2
    /\ settings.catTotal = 2
    /\ Len(RingLines) = 4
    /\ Len(LevelLabels) = 1

\* ----------------------------------------------------------------- C9
ExpectedNames(objectName) ==
    CASE objectName = "nodes" -> {"show", "sizeFactor"}
      [] objectName = "categoryAxis" -> {"show"}
      [] objectName = "levelAxis" -> {"show", "segments"}
      [] OTHER -> {}

\* What a call of enumerateObjectInstances returned: one instance of the
\* asked object with its properties for the three known names, nothing for
\* another name, and the defaults while no update has stored a data view.
ReturnedAsExpected ==
    returned.call = "enumerateObjectInstances" =>
        IF returned.objectName \in {"nodes", "categoryAxis", "levelAxis"}
        THEN /\ Len(returned.instances) = 1
             /\ returned.instances[1].objectName = returned.objectName
             /\ returned.instances[1].properties.names = ExpectedNames(returned.objectName)
             /\ ~dataView.defined =>
                    /\ returned.instances[1].properties.show = "true"
                    /\ returned.objectName = "nodes" =>
                           returned.instances[1].properties.sizeFactor = Some(4)
                    /\ returned.objectName = "levelAxis" =>
                           returned.instances[1].properties.segments = Some(4)
        ELSE returned.instances = <<>>

\* C9: enumerateObjectInstances is a query: in every state, before the first
\* update too, it returns one instance for 'nodes', 'categoryAxis' and
\* 'levelAxis' and none for another name, with the defaults true, 4 and 4
\* before any update, and the call changes none of the stored data view,
\* data, settings and scene.
C9_EnumerateIsPureQuery ==
    /\ []ReturnedAsExpected
    /\ [][returned'.call = "enumerateObjectInstances" =>
            /\ UNCHANGED visual
            /\ returned'.instances = Instances(dataView, returned'.objectName)]_vars

\* The level axis asked for before any update, and answered with defaults.
C9_Witness ==
    /\ ~dataView.defined
    /\ returned.call = "enumerateObjectInstances"
    /\ returned.objectName = "levelAxis"
    /\ Len(returned.instances) = 1

\* ---------------------------------------------------------------- C10
\* C10: after an update with a data view the data group holds one polygon
\* per series, in series order, and each is closed: its points are the
\* vertices of the series' points in category order followed by the first
\* vertex again.
C10_OneClosedPolygonPerSeries ==
    lastUpdate.defined =>
        /\ Len(PolygonsOf(dataGraphicsContext.children)) = Len(data.series)
        /\ \A k \in 1..Len(data.series) :
               LET points == PolygonOfSeries(k).pts
                   serie == data.series[k]
               IN  /\ Len(points) = Len(serie.data) + 1
                   /\ \A i \in 1..Len(serie.data) :
                          /\ points[i].idx = serie.data[i].categoryIndex
                          /\ points[i].idx = i - 1
                          /\ points[i] = ClampedVertex(serie.data[i].value, i - 1)
                   /\ points[Len(points)] = points[1]

\* Two polygons of two vertices each, closed by a third point.
C10_Witness ==
    /\ lastUpdate.defined
    /\ Len(PolygonsOf(dataGraphicsContext.children)) = 2
    /\ \A k \in 1..2 : Len(PolygonOfSeries(k).pts) = 3
    /\ PolygonOfSeries(1).pts[1] # PolygonOfSeries(1).pts[2]

\* ---------------------------------------------------------------- C11
\* The last host call was an update whose options carried no data view.
UpdatedWithoutDataView ==
    returned.call = "update" /\ returned.dataViews \in {"absent", "empty"}

\* What enumerateObjectInstances reports for every object name, for a data view.
Reported(dv) == [objectName \in ObjectNames |-> Instances(dv, objectName)]

\* C11: an update whose options carry no data view (dataViews absent, or its
\* first entry absent) changes nothing: the stored data view, data and
\* settings, the svg size and every element of both groups stay as they
\* were, so the scene is still the render of the last update that had a data
\* view, and enumerateObjectInstances still reports that data view's values.
C11_UpdateWithoutDataViewIsNoOp ==
    /\ [][(returned'.call = "update" /\ returned'.dataViews \in {"absent", "empty"}) =>
            /\ UNCHANGED visual
            /\ Reported(dataView') = Reported(dataView)]_vars
    /\ [](UpdatedWithoutDataView =>
            /\ dataView = lastUpdate.dataView
            /\ Reported(dataView) = Reported(lastUpdate.dataView)
            /\ lastUpdate.defined =>
                   /\ data = FreshData(lastUpdate)
                   /\ settings = FreshSettings(lastUpdate)
                   /\ svg = [width |-> Some(lastUpdate.viewport.width),
                             height |-> Some(lastUpdate.viewport.height)]
                   /\ axisGraphicsContext = FreshAxis(lastUpdate)
                   /\ dataGraphicsContext.children = FreshDataGroup(lastUpdate).children)
    /\ []((returned.call = "enumerateObjectInstances" /\ lastUpdate.defined) =>
            returned.instances = Instances(lastUpdate.dataView, returned.objectName))

\* An update without a data view has arrived over a drawn chart whose data
\* view sets its own properties.
C11_Witness ==
    /\ UpdatedWithoutDataView
    /\ returned.dataViews = "empty"
    /\ lastUpdate.defined
    /\ dataView.objects.defined
    /\ Len(axisGraphicsContext) > 0
    /\ Len(PolygonsOf(dataGraphicsContext.children)) = 2

\* ---------------------------------------------------------------- C12
\* The distance of a drawn point from the centre (scale, scale) of its
\* formula scale * (1 - frac * sin(a)), scale * (1 - frac * cos(a)) with
\* a = idx * 2 pi / total: scale * |frac|, and NaN when the angle is not a
\* number (total = 0 makes it 0 / 0 or Infinity, whose sine is NaN).
RadialDistance(p) ==
    IF p.total = 0 THEN NaN
    ELSE RatMul(p.scale, [num |-> Abs(p.frac.num), den |-> p.frac.den])

\* The data group's translate puts the centre of the formula with this scale
\* on the viewport centre (width / 2, height / 2).
CentredOnViewport(scale) ==
    dataGraphicsContext.transform =
        <<RatSub(Half(settings.width), scale), RatSub(Half(settings.height), scale)>>

\* A drawn point lies between 0 and settings.radius from the viewport centre.
InsideChart(p) ==
    /\ CentredOnViewport(p.scale)
    /\ RatLeq(Num(0), RadialDistance(p))
    /\ RatLeq(RadialDistance(p), settings.radius)

\* A drawn point of a data point with this value is inside the chart, and at
\* the centre when the value is not positive.
PlacedInsideChart(p, value) ==
    /\ InsideChart(p)
    /\ value <= 0 => RadialDistance(p) = Num(0)

SomeValuePositive == \E n \in 1..Len(data.values) : data.values[n].value > 0

\* C12 as stated: after any update whose data has at least one positive
\* value, settings.radius is 0.85 * min(width, height) / 2, which fits in the
\* viewport, and every polygon vertex and every node centre is between 0 and
\* settings.radius away from the viewport centre, the points of values <= 0
\* exactly at the centre.
C12_ShapesStayInsideChart ==
    (lastUpdate.defined /\ SomeValuePositive) =>
        /\ settings.radius =
               Rat(MarginFactorPct * Min(settings.width, settings.height), 2 * 100)
        /\ RatLeq(settings.radius, Half(Min(settings.width, settings.height)))
        /\ \A k \in 1..Len(data.series) :
               /\ \A i \in 1..Len(data.series[k].data) :
                      PlacedInsideChart(PolygonOfSeries(k).pts[i],
                                        data.series[k].data[i].value)
               /\ \A i \in 1..Len(PolygonOfSeries(k).pts) :
                      InsideChart(PolygonOfSeries(k).pts[i])
        /\ \A n \in 1..Len(Circles(dataGraphicsContext.children)) :
               PlacedInsideChart(CircleOfValue(n).pts[1], data.values[n].value)

\* ---------------------------------------------------------------- C13
\* The position (1-based) in data.values of point i of series k: the points
\* of the earlier series come first.
FlatIndex(k, i) == SumLen(SubSeq(SeriesData(data), 1, k - 1)) + i

\* Two drawn points coincide: the same place, or both without a position
\* (coordinates NaN) because the chart has no category to take an angle
\* from, or because the share of the radius is 0 / 0.
Coincide(p, q) ==
    \/ SamePlace(p, q)
    \/ /\ p.scale = q.scale
       /\ p.frac = q.frac
       /\ (p.total = 0 /\ q.total = 0) \/ IsNaN(p.frac)

\* C13 as stated: after any update with the nodes shown, whatever the number
\* of series and their lengths, the circle of every data point (placed by
\* the point's index in data.values) has the angle, modulo a full turn, and
\* the radial distance of the vertex that the point has in its series'
\* polygon (placed by the point's index in the series).
C13_NodesOnPolygonVertices ==
    (lastUpdate.defined /\ NodesShown) =>
        \A k \in 1..Len(data.series) : \A i \in 1..Len(data.series[k].data) :
            /\ data.values[FlatIndex(k, i)] = data.series[k].data[i]
            /\ Coincide(CircleOfValue(FlatIndex(k, i)).pts[1], PolygonOfSeries(k).pts[i])

\* ---------------------------------------------------------------- C14
\* The object of this name in the stored data view's metadata; an object
\* that is not there sets no property.
MetadataObject(objectName) ==
    CASE objectName = "nodes" -> dataView.objects.nodes
      [] objectName = "categoryAxis" -> dataView.objects.categoryAxis
      [] objectName = "levelAxis" -> dataView.objects.levelAxis

ShowUnset(objectName) == MetadataObject(objectName).show = "undefined"

\* The numeric properties fall back to 4 when the metadata does not set them.
NumbersDefault ==
    /\ ~IsDefined(MetadataObject("nodes").sizeFactor) =>
           getSizeFactorNodes(dataView) = 4
    /\ ~IsDefined(MetadataObject("levelAxis").segments) =>
           getSegmentsLevelAxis(dataView) = 4

\* C14 as stated: after an update, every property the data view's metadata
\* does not set has its default, whatever else its object sets: the three
\* show flags are true, nodes.sizeFactor and levelAxis.segments are 4 and the
\* level-label format is '%'; so the nodes, the category axis and the level
\* axis with its '%' labels are drawn when their show flag is not set.
C14_UnsetPropertiesDefault ==
    lastUpdate.defined =>
        /\ NumbersDefault
        /\ MetadataObject("levelAxis").format = "undefined" =>
               /\ getFormatLevelAxis(dataView) = "%"
               /\ settings.levelsFormat = "%"
        /\ ShowUnset("nodes") =>
               /\ getShowNodes(dataView) = "true"
               /\ Len(Circles(dataGraphicsContext.children)) = Len(data.values)
        /\ ShowUnset("categoryAxis") =>
               /\ getShowCategoryAxis(dataView) = "true"
               /\ Len(Spokes) = settings.catTotal
        /\ ShowUnset("levelAxis") =>
               /\ getShowLevelAxis(dataView) = "true"
               /\ Len(RingLines) = settings.levels * settings.catTotal
               /\ Len(LevelLabels) = Max(settings.levels - 1, 0)
               /\ \A k \in 1..Len(LevelLabels) : LevelLabels[k].text.suffix = "%"

====
